---- MODULE Spec2Model ----
(***************************************************************************)
(* PayNowComponent (pay-now.component.ts): the account lookup and the      *)
(* payment initiation of the pay-now screen, as a state machine.           *)
(*                                                                         *)
(* Text that the code inspects character by character (account number,    *)
(* phone number, amounts, payment links) is a sequence of one-character    *)
(* strings; text that is only compared or displayed is a TLA+ string.      *)
(* A JSON object is a record; an optional field that is absent is absent   *)
(* from the record's DOMAIN. Responses are JSON objects, as the two        *)
(* endpoints return them.                                                  *)
(***************************************************************************)
EXTENDS Naturals, Sequences, FiniteSets, TLC

\* Requests on record at one time: the ones still subscribed, and the ones
\* that ended since the last request was issued.
MaxRequests == 2

VARIABLES
    accountNumber,    \* field accountNumber (chars)
    phoneNumber,      \* field phoneNumber (chars)
    consumerDetails,  \* field consumerDetails: NULL or [name, dueDate, amount]
    errorMessage,     \* field errorMessage: NULL or [kind, value]
    isLoading,        \* field isLoading
    amountInput,      \* value of the amount <input> that restrictToNumber writes back
    requests,         \* the HTTP requests on record, each with its subscription
                      \* and, for a payment, the tab opened for it (tempWindow)
    lastCall,         \* the handler that ran last and the branch it took
    lastLookup        \* what the lookup operation did last

viewState == <<accountNumber, phoneNumber, consumerDetails, errorMessage, isLoading>>

vars == <<accountNumber, phoneNumber, consumerDetails, errorMessage, isLoading,
          amountInput, requests, lastCall, lastLookup>>

NULL == [null |-> TRUE]

----------------------------------------------------------------------------
(* Characters and numbers *)

DigitChars == <<"0", "1", "2", "3", "4", "5", "6", "7", "8", "9">>

Digits == {DigitChars[i] : i \in DOMAIN DigitChars}

IsDigit(c) == c \in Digits

DigitValue(c) == (CHOOSE i \in DOMAIN DigitChars : DigitChars[i] = c) - 1

RECURSIVE Join(_)
\* The string that a sequence of characters spells.
Join(s) == IF s = <<>> THEN "" ELSE Head(s) \o Join(Tail(s))

\* The longest prefix of s made of digits only.
RECURSIVE DigitPrefix(_)
DigitPrefix(s) ==
    IF s = <<>> \/ ~IsDigit(Head(s)) THEN <<>>
    ELSE <<Head(s)>> \o DigitPrefix(Tail(s))

RECURSIVE SkipSpaces(_)
SkipSpaces(s) == IF s # <<>> /\ Head(s) = " " THEN SkipSpaces(Tail(s)) ELSE s

RECURSIVE NatOf(_)
\* The number a sequence of digits denotes (0 for none).
NatOf(ds) ==
    IF ds = <<>> THEN 0
    ELSE NatOf(SubSeq(ds, 1, Len(ds) - 1)) * Len(DigitChars) + DigitValue(ds[Len(ds)])

RECURSIVE DropTrailingZeros(_)
DropTrailingZeros(ds) ==
    IF ds # <<>> /\ ds[Len(ds)] = "0"
    THEN DropTrailingZeros(SubSeq(ds, 1, Len(ds) - 1))
    ELSE ds

\* A JavaScript number that is a finite non-negative decimal: its integer
\* part and the digits of its fraction, without trailing zeros.
NaN == [nan |-> TRUE]

Zero == [int |-> 0, frac |-> <<>>]

\* parseFloat(text): skips leading blanks, then reads the longest prefix
\* "digits [. digits]" or ". digits"; NaN when that prefix holds no digit.
\* (Signs, exponents and "Infinity" are not in the alphabet of the inputs.)
parseFloat(text) ==
    LET s    == SkipSpaces(text)
        ip   == DigitPrefix(s)
        rest == SubSeq(s, Len(ip) + 1, Len(s))
        fp   == IF rest # <<>> /\ Head(rest) = "." THEN DigitPrefix(Tail(rest)) ELSE <<>>
    IN IF ip = <<>> /\ fp = <<>> THEN NaN
       ELSE [int |-> NatOf(ip), frac |-> DropTrailingZeros(fp)]

\* x || 0 for a number x: NaN and 0 are falsy.
NumberOrZero(x) == IF x = NaN \/ x = Zero THEN Zero ELSE x

----------------------------------------------------------------------------
(* Optional fields of JSON objects *)

Has(obj, f) == f \in DOMAIN obj

\* obj?.f || fallback, for a field holding a TLA+ string
StringOr(obj, f, fallback) == IF Has(obj, f) /\ obj[f] # "" THEN obj[f] ELSE fallback

\* obj?.f || fallback, for a field holding characters
CharsOr(obj, f, fallback) == IF Has(obj, f) /\ obj[f] # <<>> THEN obj[f] ELSE fallback

\* obj?.f, with the empty object standing for undefined
ObjectAt(obj, f) == IF Has(obj, f) THEN obj[f] ELSE <<>>

Plain(text) == [kind |-> "plain", value |-> text]

\* DomSanitizer.bypassSecurityTrustHtml(text)
bypassSecurityTrustHtml(text) == [kind |-> "markup", value |-> text]

----------------------------------------------------------------------------
(* isPhoneNumberValid and the amount filter of restrictToNumber *)

\* /^\d{10}$/.test(phone)
TenDigits(phone) == Len(phone) = Len(DigitChars) /\ \A i \in DOMAIN phone : IsDigit(phone[i])

\* get isPhoneNumberValid(): !this.phoneNumber || /^\d{10}$/.test(this.phoneNumber)
isPhoneNumberValid(phone) == phone = <<>> \/ TenDigits(phone)

RECURSIVE KeepDigitsAndDots(_)
\* value.replace(/[^0-9.]/g, '')
KeepDigitsAndDots(s) ==
    IF s = <<>> THEN <<>>
    ELSE IF IsDigit(Head(s)) \/ Head(s) = "."
         THEN <<Head(s)>> \o KeepDigitsAndDots(Tail(s))
         ELSE KeepDigitsAndDots(Tail(s))

RECURSIVE UpToDot(_)
\* The characters of s before its first "." (all of s when it has none).
UpToDot(s) == IF s = <<>> \/ Head(s) = "." THEN <<>> ELSE <<Head(s)>> \o UpToDot(Tail(s))

RECURSIVE Split(_)
\* value.split('.'): the segments between the dots, at least one.
Split(s) ==
    LET first == UpToDot(s)
    IN IF Len(first) = Len(s) THEN <<first>>
       ELSE <<first>> \o Split(SubSeq(s, Len(first) + 2, Len(s)))

\* Faulty variant: the fraction is cut to three digits.
SanitizeAmount_ThreeDecimals(raw) ==
    LET value  == KeepDigitsAndDots(raw)
        parts  == Split(value)
        value1 == IF Len(parts) > 2 THEN parts[1] \o <<".">> \o parts[2] ELSE value
        value2 == IF Len(parts) >= 2 /\ parts[2] # <<>> /\ Len(parts[2]) > 3
                  THEN parts[1] \o <<".">> \o SubSeq(parts[2], 1, 3)
                  ELSE value1
    IN value2

\* The value restrictToNumber writes back to the input for the raw text typed.
SanitizeAmount(raw) ==
    LET value  == KeepDigitsAndDots(raw)
        parts  == Split(value)
        value1 == IF Len(parts) > 2 THEN parts[1] \o <<".">> \o parts[2] ELSE value
        value2 == IF Len(parts) >= 2 /\ parts[2] # <<>> /\ Len(parts[2]) > 2
                  THEN parts[1] \o <<".">> \o SubSeq(parts[2], 1, 2)
                  ELSE value1
    IN value2

----------------------------------------------------------------------------
(* new URL(link) and URL.toString(), for links without port, credentials,  *)
(* query or fragment                                                       *)

UpperChars == <<"A", "B", "C", "D", "E", "F", "G", "H", "I", "J", "K", "L", "M",
                "N", "O", "P", "Q", "R", "S", "T", "U", "V", "W", "X", "Y", "Z">>

LowerChars == <<"a", "b", "c", "d", "e", "f", "g", "h", "i", "j", "k", "l", "m",
                "n", "o", "p", "q", "r", "s", "t", "u", "v", "w", "x", "y", "z">>

IsUpper(c) == \E i \in DOMAIN UpperChars : UpperChars[i] = c

IsAlpha(c) == IsUpper(c) \/ \E i \in DOMAIN LowerChars : LowerChars[i] = c

LowerChar(c) ==
    IF IsUpper(c) THEN LowerChars[CHOOSE i \in DOMAIN UpperChars : UpperChars[i] = c] ELSE c

LowerCase(s) == [i \in DOMAIN s |-> LowerChar(s[i])]

IsSchemeChar(c) == IsAlpha(c) \/ IsDigit(c) \/ c \in {"+", "-", "."}

RECURSIVE TrimRight(_)
TrimRight(s) ==
    IF s # <<>> /\ s[Len(s)] = " " THEN TrimRight(SubSeq(s, 1, Len(s) - 1)) ELSE s

RECURSIVE UpToColon(_)
UpToColon(s) == IF s = <<>> \/ Head(s) = ":" THEN <<>> ELSE <<Head(s)>> \o UpToColon(Tail(s))

RECURSIVE SkipSlashes(_)
SkipSlashes(s) ==
    IF s # <<>> /\ Head(s) \in {"/", "\\"} THEN SkipSlashes(Tail(s)) ELSE s

RECURSIVE UpToSlash(_)
UpToSlash(s) ==
    IF s = <<>> \/ Head(s) \in {"/", "\\"} THEN <<>> ELSE <<Head(s)>> \o UpToSlash(Tail(s))

SpecialSchemes == {<<"h", "t", "t", "p">>, <<"h", "t", "t", "p", "s">>,
                   <<"f", "t", "p">>, <<"w", "s">>, <<"w", "s", "s">>}

ForbiddenHostChars == {" ", "<", ">", "^", "|", "%", "#", "?", "@", "[", "]", ":"}

InvalidURL == [invalid |-> TRUE]

\* new URL(link), no base: InvalidURL where the constructor throws TypeError.
ParseURL(link) ==
    LET s      == TrimRight(SkipSpaces(link))
        scheme == UpToColon(s)
        rest   == SubSeq(s, Len(scheme) + 2, Len(s))
        after  == SkipSlashes(rest)
        host   == UpToSlash(after)
        path   == SubSeq(after, Len(host) + 1, Len(after))
    IN IF \/ Len(scheme) = Len(s)
          \/ scheme = <<>>
          \/ ~IsAlpha(scheme[1])
          \/ \E i \in DOMAIN scheme : ~IsSchemeChar(scheme[i])
       THEN InvalidURL
       ELSE IF LowerCase(scheme) \in SpecialSchemes
            THEN IF host = <<>> \/ \E i \in DOMAIN host : host[i] \in ForbiddenHostChars
                 THEN InvalidURL
                 ELSE [scheme |-> LowerCase(scheme), host |-> LowerCase(host),
                       path |-> IF path = <<>> THEN <<"/">> ELSE path]
            ELSE [scheme |-> LowerCase(scheme), opaque |-> rest]

\* url.toString(): the serialised href.
URLToString(url) ==
    IF Has(url, "opaque") THEN url.scheme \o <<":">> \o url.opaque
    ELSE url.scheme \o <<":", "/", "/">> \o url.host \o url.path

----------------------------------------------------------------------------
(* What the user types and what the network returns *)

AccountInputs == {<<>>, <<" ">>, <<"A", "1">>}

ValidPhone == <<"5", "5", "5", "1", "2", "3", "4", "5", "6", "7">>

ShortPhone == <<"5", "5", "5", "1", "2", "3">>

PhoneInputs == {ShortPhone}

AmountInputs == {<<"1", "2", ".", "3", ".", "4", "5">>, <<"a", "b", "c">>}

\* Bodies of the GET endpoint: { message, data?: { payload?: {...} } }
JanePayload == [customerDetails |-> [name |-> "Jane", phoneNumber |-> ValidPhone],
                dueDate |-> "2025-01-01",
                totalAmount |-> <<"4", "2", ".", "5", "0">>]

LookupResponses ==
    { [message |-> "SUCCESS", data |-> [payload |-> JanePayload]],
      [message |-> "SUCCESS"],
      [message |-> "not found"] }

GoodLink == <<"h", "t", "t", "p", "s", ":", "/", "/", "P", "a", "y", ".", "i", "o">>

BadLink == <<"n", "o", "t", " ", "a", " ", "u", "r", "l">>

\* Bodies of the POST endpoint: { message, data?: { link? } }
PaymentResponses ==
    { [message |-> "Success", data |-> [link |-> GoodLink]],
      [message |-> "Success", data |-> [link |-> BadLink]],
      [message |-> "Failed"] }

\* What the error callback receives when the transport fails.
HttpErrors ==
    { [name |-> "HttpErrorResponse", status |-> 0,
       message |-> "Http failure response: 0 Unknown Error"],
      [name |-> "HttpErrorResponse", status |-> 401,
       message |-> "Http failure response: 401 Unauthorized"],
      [name |-> "HttpErrorResponse", status |-> 500,
       message |-> "Http failure response: 500 Internal Server Error"] }

\* What timeout(5000) raises.
TimeoutError == [name |-> "TimeoutError", message |-> "Timeout has occurred"]

\* encodeURIComponent over letters, digits and blanks
encodeURIComponent(text) ==
    LET RECURSIVE Enc(_)
        Enc(s) == IF s = <<>> THEN <<>>
                  ELSE (IF Head(s) = " " THEN <<"%", "2", "0">> ELSE <<Head(s)>>) \o Enc(Tail(s))
    IN Enc(text)

----------------------------------------------------------------------------
(* The view state as a value, and the callbacks as functions of it *)

VS == [accountNumber |-> accountNumber, phoneNumber |-> phoneNumber,
       consumerDetails |-> consumerDetails, errorMessage |-> errorMessage,
       isLoading |-> isLoading]

SetView(v) ==
    /\ accountNumber' = v.accountNumber
    /\ phoneNumber' = v.phoneNumber
    /\ consumerDetails' = v.consumerDetails
    /\ errorMessage' = v.errorMessage
    /\ isLoading' = v.isLoading

\* Faulty variant: the isLoading check is missing.
GetDetailsBranch_NoBusyCheck(vs) ==
    IF vs.accountNumber = <<>> THEN "validation" ELSE "request"

\* onGetDetails, up to the request: which of its three paths is taken.
GetDetailsBranch(vs) ==
    IF vs.accountNumber = <<>> THEN "validation"
    ELSE IF vs.isLoading THEN "ignored"
    ELSE "request"

\* Faulty variant: a new lookup keeps the consumer details of the last one.
GetDetailsView_KeepDetails(vs) ==
    CASE GetDetailsBranch(vs) = "validation" ->
            [vs EXCEPT !.errorMessage = Plain("Please enter an account number"),
                       !.consumerDetails = NULL]
      [] GetDetailsBranch(vs) = "ignored" -> vs
      [] GetDetailsBranch(vs) = "request" ->
            [vs EXCEPT !.isLoading = TRUE, !.errorMessage = NULL, !.phoneNumber = <<>>]

GetDetailsView(vs) ==
    CASE GetDetailsBranch(vs) = "validation" ->
            [vs EXCEPT !.errorMessage = Plain("Please enter an account number"),
                       !.consumerDetails = NULL]
      [] GetDetailsBranch(vs) = "ignored" -> vs
      [] GetDetailsBranch(vs) = "request" ->
            [vs EXCEPT !.isLoading = TRUE, !.errorMessage = NULL,
                       !.consumerDetails = NULL, !.phoneNumber = <<>>]

\* response.data?.payload is there
HasPayload(response) == Has(response, "data") /\ Has(response.data, "payload")

\* Faulty variant: a successful lookup does not fill in the phone number.
lookupNext_KeepPhone(vs, response) ==
    IF StringOr(response, "message", "") # "SUCCESS"
    THEN [vs EXCEPT !.errorMessage =
                        Plain(StringOr(response, "message",
                                       "An error occurred while fetching details.")),
                    !.consumerDetails = NULL]
    ELSE IF HasPayload(response)
         THEN LET payload  == response.data.payload
                  customer == ObjectAt(payload, "customerDetails")
              IN [vs EXCEPT !.consumerDetails =
                                [name    |-> StringOr(customer, "name", "Unknown Name"),
                                 dueDate |-> StringOr(payload, "dueDate", "Unknown Due Date"),
                                 amount  |-> NumberOrZero(parseFloat(
                                                 CharsOr(payload, "totalAmount", <<>>)))],
                            !.errorMessage = NULL]
         ELSE [vs EXCEPT !.errorMessage = Plain("No data found for this account number."),
                         !.consumerDetails = NULL]

\* next: of the lookup subscription
lookupNext(vs, response) ==
    IF StringOr(response, "message", "") # "SUCCESS"
    THEN [vs EXCEPT !.errorMessage =
                        Plain(StringOr(response, "message",
                                       "An error occurred while fetching details.")),
                    !.consumerDetails = NULL]
    ELSE IF HasPayload(response)
         THEN LET payload  == response.data.payload
                  customer == ObjectAt(payload, "customerDetails")
              IN [vs EXCEPT !.consumerDetails =
                                [name    |-> StringOr(customer, "name", "Unknown Name"),
                                 dueDate |-> StringOr(payload, "dueDate", "Unknown Due Date"),
                                 amount  |-> NumberOrZero(parseFloat(
                                                 CharsOr(payload, "totalAmount", <<>>)))],
                            !.phoneNumber = CharsOr(customer, "phoneNumber", <<>>),
                            !.errorMessage = NULL]
         ELSE [vs EXCEPT !.errorMessage = Plain("No data found for this account number."),
                         !.consumerDetails = NULL]

\* Faulty variant: status 403 is not taken for an authorization failure.
LookupErrorText_Only401(error) ==
    IF error.name = "TimeoutError"
    THEN "Request timed out. Please try again or check your network."
    ELSE IF Has(error, "status") /\ error.status = 0
    THEN "CORS error: Unable to reach the server. Please check your network or contact support."
    ELSE IF Has(error, "status") /\ error.status = 401
    THEN "Authorization error: Invalid or expired token. Please contact support."
    ELSE "Failed to fetch details: " \o StringOr(error, "message", "Unknown error")

LookupErrorText(error) ==
    IF error.name = "TimeoutError"
    THEN "Request timed out. Please try again or check your network."
    ELSE IF Has(error, "status") /\ error.status = 0
    THEN "CORS error: Unable to reach the server. Please check your network or contact support."
    ELSE IF Has(error, "status") /\ error.status \in {401, 403}
    THEN "Authorization error: Invalid or expired token. Please contact support."
    ELSE "Failed to fetch details: " \o StringOr(error, "message", "Unknown error")

\* error: of the lookup subscription
lookupError(vs, error) ==
    [vs EXCEPT !.errorMessage = Plain(LookupErrorText(error)),
               !.consumerDetails = NULL,
               !.isLoading = FALSE]

\* Faulty variant: complete leaves the loading flag set.
lookupComplete_KeepLoading(vs) == vs

\* complete: of the lookup subscription
lookupComplete(vs) == [vs EXCEPT !.isLoading = FALSE]

----------------------------------------------------------------------------
(* Payment initiation *)

\* window.open('', '_blank') when the browser allows it: a blank tab.
BlankTab == [closed |-> FALSE, href |-> <<>>]

\* onProceedToPay, up to the request: which of its four paths is taken.
\* opened: whether window.open returned a window.
ProceedBranch(vs, opened) ==
    IF vs.consumerDetails = NULL THEN "noDetails"
    ELSE IF vs.isLoading THEN "ignored"
    ELSE IF ~opened THEN "popupBlocked"
    ELSE "request"

PopupBlockedText ==
    "Popup blocked. Please allow popups in Safari (Settings > Safari > Block Pop-ups > Off) and try again, or <a href=\"#\" class=\"fallback-link\">click here</a> to proceed with payment."

\* Faulty variant: the popup-blocked abort leaves the loading flag set.
ProceedView_BlockedKeepsLoading(vs, opened) ==
    CASE ProceedBranch(vs, opened) = "noDetails" ->
            [vs EXCEPT !.errorMessage =
                           Plain("No consumer details available to proceed with payment.")]
      [] ProceedBranch(vs, opened) = "ignored" -> vs
      [] ProceedBranch(vs, opened) = "popupBlocked" ->
            [vs EXCEPT !.errorMessage = bypassSecurityTrustHtml(PopupBlockedText),
                       !.isLoading = TRUE]
      [] ProceedBranch(vs, opened) = "request" ->
            [vs EXCEPT !.isLoading = TRUE, !.errorMessage = NULL]

\* Faulty variant: the missing-details error also clears the loading flag.
ProceedView_ClearLoading(vs, opened) ==
    CASE ProceedBranch(vs, opened) = "noDetails" ->
            [vs EXCEPT !.errorMessage =
                           Plain("No consumer details available to proceed with payment."),
                       !.isLoading = FALSE]
      [] ProceedBranch(vs, opened) = "ignored" -> vs
      [] ProceedBranch(vs, opened) = "popupBlocked" ->
            [vs EXCEPT !.errorMessage = bypassSecurityTrustHtml(PopupBlockedText),
                       !.isLoading = FALSE]
      [] ProceedBranch(vs, opened) = "request" ->
            [vs EXCEPT !.isLoading = TRUE, !.errorMessage = NULL]

ProceedView(vs, opened) ==
    CASE ProceedBranch(vs, opened) = "noDetails" ->
            [vs EXCEPT !.errorMessage =
                           Plain("No consumer details available to proceed with payment.")]
      [] ProceedBranch(vs, opened) = "ignored" -> vs
      [] ProceedBranch(vs, opened) = "popupBlocked" ->
            [vs EXCEPT !.errorMessage = bypassSecurityTrustHtml(PopupBlockedText),
                       !.isLoading = FALSE]
      [] ProceedBranch(vs, opened) = "request" ->
            [vs EXCEPT !.isLoading = TRUE, !.errorMessage = NULL]

\* Faulty variant: the phone number is sent whenever there is one.
PaymentPayload_AnyPhone(vs) ==
    LET base == [name       |-> vs.consumerDetails.name,
                 fileNumber |-> vs.accountNumber,
                 amount     |-> vs.consumerDetails.amount]
    IN IF vs.phoneNumber # <<>>
       THEN [name       |-> base.name,
             fileNumber |-> base.fileNumber,
             amount     |-> base.amount,
             number     |-> vs.phoneNumber]
       ELSE base

\* paymentPayload
PaymentPayload(vs) ==
    LET base == [name       |-> vs.consumerDetails.name,
                 fileNumber |-> vs.accountNumber,
                 amount     |-> vs.consumerDetails.amount]
    IN IF vs.phoneNumber # <<>> /\ isPhoneNumberValid(vs.phoneNumber)
       THEN [name       |-> base.name,
             fileNumber |-> base.fileNumber,
             amount     |-> base.amount,
             number     |-> vs.phoneNumber]
       ELSE base

\* Faulty variant: the marker is accepted in upper case too.
HasPaymentLink_AnyCase(response) ==
    /\ StringOr(response, "message", "") \in {"Success", "SUCCESS"}
    /\ Has(response, "data")
    /\ CharsOr(response.data, "link", <<>>) # <<>>

\* response.message === 'Success' && response.data?.link
HasPaymentLink(response) ==
    /\ StringOr(response, "message", "") = "Success"
    /\ Has(response, "data")
    /\ CharsOr(response.data, "link", <<>>) # <<>>

InvalidLinkText(link) ==
    "Invalid payment URL. Please try again or <a href=\"" \o Join(link)
        \o "\" class=\"fallback-link\">click here</a> to proceed with payment."

\* next: of the payment subscription; the view state and the tab after it.
paymentNext(vs, tab, response) ==
    IF HasPaymentLink(response)
    THEN LET paymentUrl == ParseURL(response.data.link)
         IN IF paymentUrl # InvalidURL
            THEN [view |-> vs, tab |-> [tab EXCEPT !.href = URLToString(paymentUrl)]]
            ELSE [view |-> [vs EXCEPT !.errorMessage =
                                          bypassSecurityTrustHtml(
                                              InvalidLinkText(response.data.link)),
                                      !.isLoading = FALSE],
                  tab  |-> [tab EXCEPT !.closed = TRUE]]
    ELSE [view |-> [vs EXCEPT !.errorMessage =
                                  Plain("Failed to generate payment link. Please try again."),
                              !.isLoading = FALSE],
          tab  |-> [tab EXCEPT !.closed = TRUE]]

PaymentErrorText(error) ==
    IF error.name = "TimeoutError"
    THEN "Payment request timed out. Please try again."
    ELSE IF Has(error, "status") /\ error.status = 0
    THEN "Unable to reach the payment server. Please check your network, allow popups in Safari (Settings > Safari > Block Pop-ups > Off), or <a href=\"#\" class=\"fallback-link\">click here</a> to proceed."
    ELSE IF Has(error, "status") /\ error.status \in {401, 403}
    THEN "Authorization error: Unable to process payment. Please contact support."
    ELSE "Failed to initiate payment: " \o StringOr(error, "message", "Unknown error")

\* Faulty variant: error does not close the tab.
paymentError_LeaveTab(vs, tab, error) ==
    [view |-> [vs EXCEPT !.errorMessage = bypassSecurityTrustHtml(PaymentErrorText(error)),
                         !.isLoading = FALSE],
     tab  |-> tab]

\* Faulty variant: error clears the details, as the lookup's error does.
paymentError_ClearDetails(vs, tab, error) ==
    [view |-> [vs EXCEPT !.errorMessage = bypassSecurityTrustHtml(PaymentErrorText(error)),
                         !.consumerDetails = NULL,
                         !.isLoading = FALSE],
     tab  |-> [tab EXCEPT !.closed = TRUE]]

\* error: of the payment subscription
paymentError(vs, tab, error) ==
    [view |-> [vs EXCEPT !.errorMessage = bypassSecurityTrustHtml(PaymentErrorText(error)),
                         !.isLoading = FALSE],
     tab  |-> [tab EXCEPT !.closed = TRUE]]

\* Faulty variant: complete leaves the loading flag set.
paymentComplete_KeepLoading(vs) == vs

\* complete: of the payment subscription
paymentComplete(vs) == [vs EXCEPT !.isLoading = FALSE]

----------------------------------------------------------------------------
(* Requests: http.get / http.post piped through timeout(5000) and subscribed *)

\* The time budget of both calls, in milliseconds.
TimeBudget == 5000

\* A request as subscribed: sub is the subscription ("open" until a callback
\* ends it), timer the timeout operator's timer, wire whether the server's
\* answer is still to come, tab the window opened for a payment (NULL for a
\* lookup).
NewRequest(kind, body, tab) ==
    [kind |-> kind, body |-> body, tab |-> tab, budget |-> TimeBudget,
     sub |-> "open", timer |-> "armed", wire |-> "pending",
     nextCalls |-> 0, errorCalls |-> 0, completeCalls |-> 0, result |-> NULL]

\* The subscription once the source has emitted its response and completed.
AfterResponse(r, response) ==
    [r EXCEPT !.sub = "closed", !.timer = "cancelled", !.wire = "done",
              !.nextCalls = @ + 1, !.completeCalls = @ + 1,
              !.result = [response |-> response]]

\* The subscription once the source has failed.
AfterFailure(r, error) ==
    [r EXCEPT !.sub = "closed", !.timer = "cancelled", !.wire = "done",
              !.errorCalls = @ + 1, !.result = [error |-> error]]

\* Faulty variant: the timer raises TimeoutError and the source stays subscribed.
AfterTimeout_StaySubscribed(r) ==
    [r EXCEPT !.timer = "fired", !.errorCalls = @ + 1, !.result = [error |-> TimeoutError]]

\* The subscription once the timer has fired: timeout unsubscribes from the
\* source and raises TimeoutError; the server's answer may still be on its way.
AfterTimeout(r) ==
    [r EXCEPT !.sub = "closed", !.timer = "fired",
              !.errorCalls = @ + 1, !.result = [error |-> TimeoutError]]

InFlight == {i \in DOMAIN requests : requests[i].sub = "open"}

\* The record once a new request is issued: requests that have ended are out
\* of the component's reach (the tab of an ended payment too, and the
\* XMLHttpRequest of a timed-out one is aborted) and are dropped from it.
Issue(reqs, request) == Append(SelectSeq(reqs, LAMBDA r : r.sub = "open"), request)

----------------------------------------------------------------------------
(* The state machine *)

Init ==
    /\ accountNumber = <<>>
    /\ phoneNumber = <<>>
    /\ consumerDetails = NULL
    /\ errorMessage = NULL
    /\ isLoading = FALSE
    /\ amountInput = <<>>
    /\ requests = <<>>
    /\ lastCall = [op |-> "constructor", branch |-> "", req |-> 0]
    /\ lastLookup = [event |-> "none"]

\* The user types into the account field ([(ngModel)] on accountNumber).
EditAccount(text) ==
    /\ text # accountNumber
    /\ accountNumber' = text
    /\ lastCall' = [op |-> "edit", branch |-> "", req |-> 0]
    /\ UNCHANGED <<phoneNumber, consumerDetails, errorMessage, isLoading,
                   amountInput, requests, lastLookup>>

\* The user types into the phone field ([(ngModel)] on phoneNumber).
EditPhone(text) ==
    /\ text # phoneNumber
    /\ phoneNumber' = text
    /\ lastCall' = [op |-> "edit", branch |-> "", req |-> 0]
    /\ UNCHANGED <<accountNumber, consumerDetails, errorMessage, isLoading,
                   amountInput, requests, lastLookup>>

\* The user types raw into the amount input.
restrictToNumber(raw) ==
    LET value == SanitizeAmount(raw)
    IN /\ amountInput' = value
       /\ consumerDetails' =
              IF consumerDetails # NULL
              THEN [consumerDetails EXCEPT !.amount = NumberOrZero(parseFloat(value))]
              ELSE consumerDetails
       /\ lastCall' = [op |-> "edit", branch |-> "", req |-> 0]
       /\ UNCHANGED <<accountNumber, phoneNumber, errorMessage, isLoading,
                      requests, lastLookup>>

onGetDetails ==
    LET branch == GetDetailsBranch(VS)
        issued == Issue(requests,
                        NewRequest("GET",
                                   [FileNumber |-> encodeURIComponent(accountNumber)],
                                   NULL))
    IN /\ branch = "request" => Len(issued) <= MaxRequests
       /\ SetView(GetDetailsView(VS))
       /\ requests' = IF branch = "request" THEN issued ELSE requests
       /\ lastCall' = [op |-> "onGetDetails", branch |-> branch,
                       req |-> IF branch = "request" THEN Len(issued) ELSE 0]
       /\ lastLookup' = CASE branch = "validation" -> [event |-> "validation"]
                          [] branch = "request" -> [event |-> "request"]
                          [] OTHER -> lastLookup
       /\ UNCHANGED amountInput

\* opened: whether the browser lets window.open open the tab.
onProceedToPay(opened) ==
    LET branch == ProceedBranch(VS, opened)
        issued == Issue(requests, NewRequest("POST", PaymentPayload(VS), BlankTab))
    IN /\ branch = "request" => Len(issued) <= MaxRequests
       /\ SetView(ProceedView(VS, opened))
       /\ requests' = IF branch = "request" THEN issued ELSE requests
       /\ lastCall' = [op |-> "onProceedToPay", branch |-> branch,
                       req |-> IF branch = "request" THEN Len(issued) ELSE 0]
       /\ UNCHANGED <<amountInput, lastLookup>>

\* The GET answers: next, then complete.
LookupResponse(i, response) ==
    /\ requests[i].kind = "GET"
    /\ requests[i].sub = "open"
    /\ requests[i].wire = "pending"
    /\ SetView(lookupComplete(lookupNext(VS, response)))
    /\ requests' = [requests EXCEPT ![i] = AfterResponse(@, response)]
    /\ lastCall' = [op |-> "lookupNext", branch |-> "", req |-> i]
    /\ lastLookup' = [event |-> "response", response |-> response,
                      query |-> requests[i].body.FileNumber]
    /\ UNCHANGED amountInput

\* The GET fails: error.
LookupFailure(i, error) ==
    /\ requests[i].kind = "GET"
    /\ requests[i].sub = "open"
    /\ requests[i].wire = "pending"
    /\ SetView(lookupError(VS, error))
    /\ requests' = [requests EXCEPT ![i] = AfterFailure(@, error)]
    /\ lastCall' = [op |-> "lookupError", branch |-> "", req |-> i]
    /\ lastLookup' = [event |-> "error"]
    /\ UNCHANGED amountInput

\* The POST answers: next, then complete.
PaymentResponse(i, response) ==
    /\ requests[i].kind = "POST"
    /\ requests[i].sub = "open"
    /\ requests[i].wire = "pending"
    /\ LET after == paymentNext(VS, requests[i].tab, response)
       IN /\ SetView(paymentComplete(after.view))
          /\ requests' = [requests EXCEPT
                              ![i] = [AfterResponse(@, response) EXCEPT !.tab = after.tab]]
    /\ lastCall' = [op |-> "paymentNext", branch |-> "", req |-> i]
    /\ UNCHANGED <<amountInput, lastLookup>>

\* The POST fails: error.
PaymentFailure(i, error) ==
    /\ requests[i].kind = "POST"
    /\ requests[i].sub = "open"
    /\ requests[i].wire = "pending"
    /\ LET after == paymentError(VS, requests[i].tab, error)
       IN /\ SetView(after.view)
          /\ requests' = [requests EXCEPT
                              ![i] = [AfterFailure(@, error) EXCEPT !.tab = after.tab]]
    /\ lastCall' = [op |-> "paymentError", branch |-> "", req |-> i]
    /\ UNCHANGED <<amountInput, lastLookup>>

\* No answer within the time budget: error, with TimeoutError.
Timeout(i) ==
    /\ requests[i].sub = "open"
    /\ requests[i].timer = "armed"
    /\ IF requests[i].kind = "GET"
       THEN /\ SetView(lookupError(VS, TimeoutError))
            /\ requests' = [requests EXCEPT ![i] = AfterTimeout(@)]
            /\ lastLookup' = [event |-> "error"]
       ELSE /\ LET after == paymentError(VS, requests[i].tab, TimeoutError)
               IN /\ SetView(after.view)
                  /\ requests' = [requests EXCEPT
                                      ![i] = [AfterTimeout(@) EXCEPT !.tab = after.tab]]
            /\ UNCHANGED lastLookup
    /\ lastCall' = [op |-> "timeout", branch |-> "", req |-> i]
    /\ UNCHANGED amountInput

\* The server's answer to a request that has already timed out, before the
\* next request is issued: nobody is subscribed any more.
LateResponse(i) ==
    /\ requests[i].sub = "closed"
    /\ requests[i].wire = "pending"
    /\ requests' = [requests EXCEPT ![i].wire = "done"]
    /\ lastCall' = [op |-> "lateResponse", branch |-> "", req |-> i]
    /\ UNCHANGED <<accountNumber, phoneNumber, consumerDetails, errorMessage, isLoading,
                   amountInput, lastLookup>>

TimerFires == \E i \in DOMAIN requests : Timeout(i)

Next ==
    \/ \E text \in AccountInputs : EditAccount(text)
    \/ \E text \in PhoneInputs : EditPhone(text)
    \/ \E raw \in AmountInputs : restrictToNumber(raw)
    \/ onGetDetails
    \/ \E opened \in BOOLEAN : onProceedToPay(opened)
    \/ \E i \in DOMAIN requests : \E response \in LookupResponses : LookupResponse(i, response)
    \/ \E i \in DOMAIN requests : \E error \in HttpErrors : LookupFailure(i, error)
    \/ \E i \in DOMAIN requests : \E response \in PaymentResponses : PaymentResponse(i, response)
    \/ \E i \in DOMAIN requests : \E error \in HttpErrors : PaymentFailure(i, error)
    \/ TimerFires
    \/ \E i \in DOMAIN requests : LateResponse(i)

Spec == Init /\ [][Next]_vars

\* timeout(5000) guarantees that a request still subscribed is ended.
FairSpec == Spec /\ WF_vars(TimerFires)

----------------------------------------------------------------------------
(* The same machine over wider responses, errors and phone numbers *)

ElevenDigits == ValidPhone \o <<"8">>

TenWithLetter == <<"5", "5", "5", "1", "2", "3", "4", "5", "6", "x">>

WidePhoneInputs == {<<>>, ValidPhone, ShortPhone, ElevenDigits, TenWithLetter}

\* The empty JSON object {}
EmptyObject == <<>>

BarePayload == [customerDetails |-> [phoneNumber |-> ShortPhone]]

OddPayload == [customerDetails |-> [name |-> "Bob", phoneNumber |-> TenWithLetter],
               dueDate |-> "",
               totalAmount |-> <<"n", "/", "a">>]

WideLookupResponses ==
    {[message |-> "SUCCESS", data |-> [payload |-> p]] :
        p \in {JanePayload, BarePayload, OddPayload, EmptyObject}}
        \cup {[message |-> m, data |-> [payload |-> JanePayload]] :
                m \in {"Success", "not found"}}
        \cup {[message |-> m] : m \in {"SUCCESS", "Success", "not found", ""}}
        \cup {EmptyObject, [message |-> "SUCCESS", data |-> EmptyObject]}

NoSchemeLink == <<"p", "a", "y", ".", "i", "o", "/", "x">>

OpaqueLink == <<"m", "a", "i", "l", "t", "o", ":", "a">>

NoHostLink == <<"h", "t", "t", "p", ":", "/", "/">>

PaymentLinks == {GoodLink, BadLink, NoSchemeLink, OpaqueLink, NoHostLink, <<>>}

WidePaymentResponses ==
    {[message |-> "Success", data |-> [link |-> l]] : l \in PaymentLinks}
        \cup {[message |-> m, data |-> [link |-> GoodLink]] :
                m \in {"SUCCESS", "success", "Failed"}}
        \cup {[message |-> "Success"], [message |-> "Success", data |-> EmptyObject],
              [message |-> "Failed"], [data |-> [link |-> GoodLink]], EmptyObject}

WideHttpErrors ==
    {[name |-> "HttpErrorResponse", status |-> st, message |-> "Http failure response"] :
        st \in {0, 401, 403, 404, 500}}
        \cup {[name |-> "HttpErrorResponse", status |-> 500, message |-> ""],
              [name |-> "Error", message |-> "boom"], [name |-> "Error"]}

\* The machine with every shape of payment response.
PaymentResponseNext ==
    \/ \E text \in AccountInputs : EditAccount(text)
    \/ \E text \in PhoneInputs : EditPhone(text)
    \/ \E raw \in AmountInputs : restrictToNumber(raw)
    \/ onGetDetails
    \/ \E opened \in BOOLEAN : onProceedToPay(opened)
    \/ \E i \in DOMAIN requests :
          \E response \in LookupResponses : LookupResponse(i, response)
    \/ \E i \in DOMAIN requests : \E error \in HttpErrors : LookupFailure(i, error)
    \/ \E i \in DOMAIN requests :
          \E response \in WidePaymentResponses : PaymentResponse(i, response)
    \/ \E i \in DOMAIN requests : \E error \in HttpErrors : PaymentFailure(i, error)
    \/ TimerFires
    \/ \E i \in DOMAIN requests : LateResponse(i)

PaymentResponseSpec == Init /\ [][PaymentResponseNext]_vars

\* The machine with every shape of lookup response.
LookupResponseNext ==
    \/ \E text \in AccountInputs : EditAccount(text)
    \/ \E text \in PhoneInputs : EditPhone(text)
    \/ \E raw \in AmountInputs : restrictToNumber(raw)
    \/ onGetDetails
    \/ \E opened \in BOOLEAN : onProceedToPay(opened)
    \/ \E i \in DOMAIN requests :
          \E response \in WideLookupResponses : LookupResponse(i, response)
    \/ \E i \in DOMAIN requests : \E error \in HttpErrors : LookupFailure(i, error)
    \/ \E i \in DOMAIN requests :
          \E response \in PaymentResponses : PaymentResponse(i, response)
    \/ \E i \in DOMAIN requests : \E error \in HttpErrors : PaymentFailure(i, error)
    \/ TimerFires
    \/ \E i \in DOMAIN requests : LateResponse(i)

LookupResponseSpec == Init /\ [][LookupResponseNext]_vars

\* The machine with every shape of failure.
FailureNext ==
    \/ \E text \in AccountInputs : EditAccount(text)
    \/ \E text \in PhoneInputs : EditPhone(text)
    \/ \E raw \in AmountInputs : restrictToNumber(raw)
    \/ onGetDetails
    \/ \E opened \in BOOLEAN : onProceedToPay(opened)
    \/ \E i \in DOMAIN requests :
          \E response \in LookupResponses : LookupResponse(i, response)
    \/ \E i \in DOMAIN requests : \E error \in WideHttpErrors : LookupFailure(i, error)
    \/ \E i \in DOMAIN requests :
          \E response \in PaymentResponses : PaymentResponse(i, response)
    \/ \E i \in DOMAIN requests : \E error \in WideHttpErrors : PaymentFailure(i, error)
    \/ TimerFires
    \/ \E i \in DOMAIN requests : LateResponse(i)

FailureSpec == Init /\ [][FailureNext]_vars

\* The machine with every shape of phone number, typed or looked up.
PhoneNext ==
    \/ \E text \in AccountInputs : EditAccount(text)
    \/ \E text \in WidePhoneInputs : EditPhone(text)
    \/ \E raw \in AmountInputs : restrictToNumber(raw)
    \/ onGetDetails
    \/ \E opened \in BOOLEAN : onProceedToPay(opened)
    \/ \E i \in DOMAIN requests :
          \E response \in LookupResponses \cup {[message |-> "SUCCESS", data |-> [payload |-> p]] : p \in {BarePayload, OddPayload}} : LookupResponse(i, response)
    \/ \E i \in DOMAIN requests : \E error \in HttpErrors : LookupFailure(i, error)
    \/ \E i \in DOMAIN requests :
          \E response \in PaymentResponses : PaymentResponse(i, response)
    \/ \E i \in DOMAIN requests : \E error \in HttpErrors : PaymentFailure(i, error)
    \/ TimerFires
    \/ \E i \in DOMAIN requests : LateResponse(i)

PhoneSpec == Init /\ [][PhoneNext]_vars

----------------------------------------------------------------------------
(* restrictToNumber over every text of the amount input *)

\* The longest text typed into the amount input.
MaxAmountLen == 6

\* Two digits, the decimal point and a character the filter removes.
AmountAlphabet == {"1", "2", ".", "a"}

AmountExamples ==
    {<<"1", "2", ".", "3", ".", "4", "5">>,
     <<"1", "2", ".", "3", "4", "5">>,
     <<"a", "b", "c", "1", "2", ".", "5", "x", "y", "z">>}

\* input.value as the input event finds it.
RawAmounts ==
    UNION {[1..n -> AmountAlphabet] : n \in 0..MaxAmountLen} \cup AmountExamples

\* The component as constructed, with a text just typed into the amount input.
SanitizerInit ==
    /\ accountNumber = <<>>
    /\ phoneNumber = <<>>
    /\ consumerDetails = NULL
    /\ errorMessage = NULL
    /\ isLoading = FALSE
    /\ amountInput \in RawAmounts
    /\ requests = <<>>
    /\ lastCall = [op |-> "constructor", branch |-> "", req |-> 0]
    /\ lastLookup = [event |-> "none"]

\* The input event: restrictToNumber reads input.value and writes it back.
SanitizerNext == restrictToNumber(amountInput)

SanitizerSpec == SanitizerInit /\ [][SanitizerNext]_vars

----------------------------------------------------------------------------
(* Properties *)

NumInFlight == Cardinality(InFlight)

Triggered == onGetDetails \/ \E opened \in BOOLEAN : onProceedToPay(opened)

\* C1: At most one request (lookup or payment, counted together) is in
\* flight in every reachable state; a trigger of either operation while a
\* request is pending leaves the requests as they are; and a request is only
\* ever issued by a trigger that finds nothing pending, never by a network
\* event or an edit (nothing is queued or replayed).
C1_SingleRequestInFlight ==
    /\ [](NumInFlight <= 1)
    /\ [][(NumInFlight > 0 /\ Triggered) => requests' = requests]_vars
    /\ [][NumInFlight' > NumInFlight =>
            /\ NumInFlight = 0
            /\ ~isLoading
            /\ Triggered
            /\ lastCall'.branch = "request"]_vars

\* A trigger has just been ignored while a request is pending.
C1_Witness ==
    /\ NumInFlight = 1
    /\ lastCall.branch = "ignored"

\* C2: While isLoading is true, invoking onGetDetails or onProceedToPay
\* changes no field of the view state, issues no request and opens no tab,
\* whatever the other fields hold.
C2_TriggerWhileLoadingChangesNothing ==
    [][(isLoading /\ Triggered) => UNCHANGED <<viewState, requests>>]_vars

\* C3: isLoading is true exactly when one request is in flight.
C3_LoadingIffOneInFlight ==
    /\ isLoading <=> NumInFlight = 1
    /\ NumInFlight <= 1

\* A payment request is in flight, after a lookup has come and gone.
C3_Witness ==
    /\ isLoading
    /\ \E i \in InFlight : requests[i].kind = "POST"

\* C4: Every state with isLoading set is eventually followed by one with
\* isLoading clear, given that the time budget ends every request left
\* unanswered.
C4_LoadingEventuallyClears == isLoading ~> ~isLoading

\* A lookup and a payment have each run to their end: the payment has ended
\* by a response, on the details a lookup produced.
C4_Witness ==
    /\ ~isLoading
    /\ consumerDetails # NULL
    /\ \E i \in DOMAIN requests :
          /\ requests[i].kind = "POST"
          /\ requests[i].sub = "closed"
          /\ requests[i].nextCalls = 1

IsBlank(text) == \A i \in DOMAIN text : text[i] = " "

LocalValidationError == Plain("Please enter an account number")

\* C5: For an account identifier that is empty or blank, onGetDetails sets
\* the LocalValidation error, leaves consumerDetails null and issues no
\* request.
C5_BlankAccountIsRejected ==
    [][(IsBlank(accountNumber) /\ onGetDetails) =>
          /\ errorMessage' = LocalValidationError
          /\ consumerDetails' = NULL
          /\ requests' = requests]_vars

\* A lookup response that carries the success marker and a payload.
IsSuccessWithPayload(response) ==
    /\ Has(response, "message")
    /\ response.message = "SUCCESS"
    /\ Has(response, "data")
    /\ Has(response.data, "payload")

LastLookupSucceeded ==
    /\ lastLookup.event = "response"
    /\ IsSuccessWithPayload(lastLookup.response)

\* C6: consumerDetails is non-null only if the last thing the lookup
\* operation did was to receive a success response with a payload; it is
\* null while a lookup is in flight; and only such a response turns a null
\* consumerDetails into a non-null one.
C6_DetailsOnlyFromSuccessfulLookup ==
    /\ [](consumerDetails # NULL => LastLookupSucceeded)
    /\ [](\A i \in InFlight : requests[i].kind = "GET" => consumerDetails = NULL)
    /\ [][(consumerDetails = NULL /\ consumerDetails' # NULL) =>
            /\ \E i \in DOMAIN requests :
                  \E response \in LookupResponses : LookupResponse(i, response)
            /\ lastLookup'.event = "response"
            /\ IsSuccessWithPayload(lastLookup'.response)]_vars

\* Details produced by a lookup are still there after the amount was edited
\* and a payment on them has failed.
C6_Witness ==
    /\ consumerDetails # NULL
    /\ consumerDetails.amount # NumberOrZero(parseFloat(JanePayload.totalAmount))
    /\ \E i \in DOMAIN requests :
          requests[i].kind = "POST" /\ requests[i].errorCalls = 1

NoDetailsError == Plain("No consumer details available to proceed with payment.")

\* C7: onProceedToPay with consumerDetails null sets the error message and
\* nothing else: no tab, no request, and isLoading, accountNumber,
\* phoneNumber and consumerDetails as they were.
C7_PayWithoutDetailsOnlySetsError ==
    [][(consumerDetails = NULL /\ \E opened \in BOOLEAN : onProceedToPay(opened)) =>
          /\ errorMessage' = NoDetailsError
          /\ UNCHANGED <<accountNumber, phoneNumber, consumerDetails, isLoading, requests>>]_vars

\* onProceedToPay has just run without details, while a lookup is pending.
C7_Witness ==
    /\ lastCall.op = "onProceedToPay"
    /\ lastCall.branch = "noDetails"
    /\ errorMessage = NoDetailsError
    /\ isLoading

Navigated(tab) == ~tab.closed /\ tab.href # <<>>

\* A payment response with the marker "Success" and a link that is a URL.
HasUsableLink(response) ==
    /\ Has(response, "message")
    /\ response.message = "Success"
    /\ Has(response, "data")
    /\ Has(response.data, "link")
    /\ ParseURL(response.data.link) # InvalidURL

\* C8: Once a payment request has ended, its tab is either navigated or
\* closed, never open and blank and never both; it is navigated only when
\* the response carried "Success" and a link that parsed, and then to that
\* URL; after an error, a timeout or any other response it is closed.
C8_TabNavigatedOrClosed ==
    \A i \in DOMAIN requests :
        (requests[i].kind = "POST" /\ requests[i].sub = "closed") =>
            LET tab    == requests[i].tab
                result == requests[i].result
            IN /\ Navigated(tab) \/ tab.closed
               /\ ~(tab.closed /\ tab.href # <<>>)
               /\ Navigated(tab) =>
                     /\ Has(result, "response")
                     /\ HasUsableLink(result.response)
                     /\ tab.href = URLToString(ParseURL(result.response.data.link))
               /\ (Has(result, "error") \/ ~HasUsableLink(result.response)) => tab.closed

\* One payment has ended navigated to the payment page.
C8_Witness ==
    \E i \in DOMAIN requests :
        /\ requests[i].kind = "POST"
        /\ requests[i].sub = "closed"
        /\ Navigated(requests[i].tab)
        /\ requests[i].tab.href = URLToString(ParseURL(GoodLink))

\* C9: For every request at most one of next and error runs, at most once,
\* and exactly one has run once the request has ended; a request whose
\* timeout has fired has ended by error alone, and the answer that arrives
\* for it afterwards changes neither the view state nor a tab; requests are
\* issued by triggers only.
C9_OneCallbackPerRequest ==
    /\ [](\A i \in DOMAIN requests :
            LET r == requests[i]
            IN /\ r.nextCalls + r.errorCalls <= 1
               /\ r.sub = "closed" <=> r.nextCalls + r.errorCalls = 1
               /\ r.timer = "fired" =>
                     (r.sub = "closed" /\ r.nextCalls = 0 /\ r.errorCalls = 1))
    /\ [][(\E i \in DOMAIN requests :
              /\ requests[i].timer = "fired"
              /\ requests[i].wire = "pending"
              /\ i \in DOMAIN requests'
              /\ requests'[i] = [requests[i] EXCEPT !.wire = "done"]) =>
            UNCHANGED viewState]_vars
    /\ [][NumInFlight' > NumInFlight => Triggered]_vars

\* The answer to a timed-out lookup has arrived after the error was shown.
C9_Witness ==
    /\ lastCall.op = "lateResponse"
    /\ \E i \in DOMAIN requests :
          /\ requests[i].timer = "fired"
          /\ requests[i].wire = "done"
          /\ requests[i].errorCalls = 1
          /\ requests[i].nextCalls = 0

LookupSideCall ==
    \/ lastCall.op \in {"onGetDetails", "lookupNext", "lookupError"}
    \/ lastCall.op = "timeout" /\ requests[lastCall.req].kind = "GET"

\* C10: No error message is on display while the loading flag is set, and
\* after a lookup-side handler has left an error message consumerDetails is
\* null.
C10_ErrorMeansNotLoading ==
    errorMessage # NULL =>
        /\ ~isLoading
        /\ LookupSideCall => consumerDetails = NULL

\* The text of an element <a ...>, as the messages embed it.
AnchorTag == "<a href="

\* piece occurs in text
Contains(text, piece) ==
    \E k \in 1..(Len(text) - Len(piece) + 1) : SubSeq(text, k, k + Len(piece) - 1) = piece

\* C11: When the browser blocks the tab (window.open returns null) for a
\* payment that has details and finds nothing loading, no request is issued
\* and no tab is on record, errorMessage is the popup-blocked message as
\* trusted markup with its fallback link, isLoading is false, and
\* consumerDetails, accountNumber and phoneNumber are as they were.
C11_PopupBlockedAborts ==
    [][(consumerDetails # NULL /\ ~isLoading /\ onProceedToPay(FALSE)) =>
          /\ requests' = requests
          /\ NumInFlight' = 0
          /\ errorMessage'.kind = "markup"
          /\ Contains(errorMessage'.value, "Popup blocked")
          /\ Contains(errorMessage'.value, AnchorTag)
          /\ ~isLoading'
          /\ UNCHANGED <<consumerDetails, accountNumber, phoneNumber>>]_vars

\* The popup was just blocked, and a retry that opens the tab would go through.
C11_Witness ==
    /\ lastCall.op = "onProceedToPay"
    /\ lastCall.branch = "popupBlocked"
    /\ errorMessage = bypassSecurityTrustHtml(PopupBlockedText)
    /\ ProceedBranch(VS, TRUE) = "request"

GenericPaymentFailure == Plain("Failed to generate payment link. Please try again.")

\* The link of a payment response, empty when the response has none.
LinkOf(response) ==
    IF Has(response, "data") /\ Has(response.data, "link") THEN response.data.link ELSE <<>>

HasSuccessMarker(response) == Has(response, "message") /\ response.message = "Success"

\* C12: For every response to a payment request: (a) with the marker exactly
\* "Success" and a link that parses as a URL the tab is navigated to that URL
\* and the handler sets no error; (b) with the marker and a link that does not
\* parse the tab is closed and the error is markup that says the URL is
\* invalid and contains the raw link; (c) without the marker ("SUCCESS" is not
\* the marker) or without a link the tab is closed and the error is the
\* generic failure message. Exactly one of the three outcomes happens.
C12_PaymentResponseClassification ==
    [][lastCall'.op = "paymentNext" =>
          LET response == requests'[lastCall'.req].result.response
              tab      == requests'[lastCall'.req].tab
              link     == LinkOf(response)
              marker   == HasSuccessMarker(response)
              parses   == ParseURL(link) # InvalidURL
              outcomeA == /\ Navigated(tab)
                          /\ tab.href = URLToString(ParseURL(link))
                          /\ errorMessage' = errorMessage
              outcomeB == /\ tab.closed
                          /\ tab.href = <<>>
                          /\ errorMessage' # NULL
                          /\ errorMessage'.kind = "markup"
                          /\ Contains(errorMessage'.value, "Invalid payment URL")
                          /\ Contains(errorMessage'.value, Join(link))
              outcomeC == /\ tab.closed
                          /\ tab.href = <<>>
                          /\ errorMessage' = GenericPaymentFailure
          IN /\ (marker /\ link # <<>> /\ parses) => outcomeA
             /\ (marker /\ link # <<>> /\ ~parses) => outcomeB
             /\ (~marker \/ link = <<>>) => outcomeC
             /\ Cardinality({k \in 1..3 : <<outcomeA, outcomeB, outcomeC>>[k]}) = 1
             /\ ~isLoading']_vars

\* A response with the marker and a link that is no URL has closed the tab
\* and left the error that shows the link.
C12_Witness ==
    /\ lastCall.op = "paymentNext"
    /\ requests[lastCall.req].result.response = [message |-> "Success", data |-> [link |-> BadLink]]
    /\ requests[lastCall.req].tab.closed
    /\ errorMessage = bypassSecurityTrustHtml(InvalidLinkText(BadLink))

\* obj has the field, a text that is not empty.
Present(obj, field) == Has(obj, field) /\ obj[field] # ""

\* C13: For every response to a lookup: with the marker exactly "SUCCESS" and
\* a payload, the details become the payload's name, due date and amount
\* ('Unknown Name', 'Unknown Due Date' and 0 where the payload has none), the
\* phone number becomes the payload's or empty, and the error is cleared;
\* otherwise the details are null and the error is the server's message when
\* the marker is another text, the generic fallback when there is no message,
\* and "No data found" when the marker is "SUCCESS" without a payload.
C13_LookupResponseClassification ==
    [][lastCall'.op = "lookupNext" =>
          LET response == lastLookup'.response
              marker   == Has(response, "message") /\ response.message = "SUCCESS"
              payload  == IF Has(response, "data") /\ Has(response.data, "payload")
                          THEN response.data.payload ELSE NULL
              customer == IF payload # NULL /\ Has(payload, "customerDetails")
                          THEN payload.customerDetails ELSE EmptyObject
          IN /\ (marker /\ payload # NULL) =>
                   /\ consumerDetails' # NULL
                   /\ consumerDetails'.name =
                          IF Present(customer, "name") THEN customer.name ELSE "Unknown Name"
                   /\ consumerDetails'.dueDate =
                          IF Present(payload, "dueDate") THEN payload.dueDate
                          ELSE "Unknown Due Date"
                   /\ consumerDetails'.amount =
                          IF Has(payload, "totalAmount")
                             /\ parseFloat(payload.totalAmount) # NaN
                          THEN parseFloat(payload.totalAmount) ELSE Zero
                   /\ phoneNumber' =
                          IF Has(customer, "phoneNumber") THEN customer.phoneNumber ELSE <<>>
                   /\ errorMessage' = NULL
             /\ ~(marker /\ payload # NULL) =>
                   /\ consumerDetails' = NULL
                   /\ errorMessage' # NULL
                   /\ phoneNumber' = phoneNumber
             /\ (~marker /\ Present(response, "message")) =>
                   errorMessage' = Plain(response.message)
             /\ ~Present(response, "message") =>
                   errorMessage' = Plain("An error occurred while fetching details.")
             /\ (marker /\ payload = NULL) =>
                   errorMessage' = Plain("No data found for this account number.")
             /\ ~isLoading']_vars

\* A lookup has answered "SUCCESS" with a payload that carries only a phone
\* number: the details are the three defaults.
C13_Witness ==
    /\ lastCall.op = "lookupNext"
    /\ lastLookup.response = [message |-> "SUCCESS", data |-> [payload |-> BarePayload]]
    /\ consumerDetails = [name |-> "Unknown Name", dueDate |-> "Unknown Due Date",
                          amount |-> Zero]
    /\ phoneNumber = ShortPhone
    /\ errorMessage = NULL

\* The class of a failure.
ErrorClass(error) ==
    IF error.name = "TimeoutError" THEN "Timeout"
    ELSE IF Has(error, "status") /\ error.status = 0 THEN "Unreachable"
    ELSE IF Has(error, "status") /\ error.status \in {401, 403} THEN "Unauthorized"
    ELSE "Generic"

\* The words by which the message of each class is told from the others.
ClassWords ==
    [Timeout |-> "timed out", Unreachable |-> "Unable to reach",
     Unauthorized |-> "Authorization error", Generic |-> "Failed to"]

Failures == WideHttpErrors \cup {TimeoutError}

\* C14: For every failure of a lookup or a payment the message is that of
\* the failure's class: Timeout for a timeout, else Unreachable for status 0,
\* else Unauthorized for status 401 or 403, else Generic with the error's text
\* or 'Unknown error'. The message is of exactly one class, failures of
\* different classes have different messages, every payment message differs
\* from every lookup message, and an anchor is embedded in the payment's
\* Unreachable message alone.
C14_FailureClassification ==
    [][lastCall'.op \in {"lookupError", "paymentError", "timeout"} =>
          LET request == requests'[lastCall'.req]
              error   == request.result.error
              class   == ErrorClass(error)
              text    == errorMessage'.value
          IN /\ errorMessage' # NULL
             /\ errorMessage'.kind = IF request.kind = "POST" THEN "markup" ELSE "plain"
             /\ (lastCall'.op = "timeout") = (class = "Timeout")
             /\ \A c \in DOMAIN ClassWords : Contains(text, ClassWords[c]) <=> c = class
             /\ class = "Generic" =>
                   Contains(text, ": " \o (IF Present(error, "message") THEN error.message
                                           ELSE "Unknown error"))
             /\ Contains(text, AnchorTag) <=> (request.kind = "POST" /\ class = "Unreachable")
             /\ \A other \in Failures :
                   /\ ErrorClass(other) # class =>
                         /\ request.kind = "GET" => text # LookupErrorText(other)
                         /\ request.kind = "POST" => text # PaymentErrorText(other)
                   /\ request.kind = "GET" => text # PaymentErrorText(other)
                   /\ request.kind = "POST" => text # LookupErrorText(other)
             /\ ~isLoading']_vars

\* A payment has failed with status 0: the error is markup with the link.
C14_Witness ==
    /\ lastCall.op = "paymentError"
    /\ ErrorClass(requests[lastCall.req].result.error) = "Unreachable"
    /\ errorMessage # NULL
    /\ errorMessage.kind = "markup"
    /\ Contains(errorMessage.value, AnchorTag)

\* C15: When onProceedToPay issues a request, its payload has the field
\* number, equal to the phone number, exactly when the phone number is ten
\* digits; an empty, shorter, longer or non-digit phone number, typed or
\* written by a lookup, is left out. The fields name, fileNumber and amount
\* are always there and equal the details' name, the account number and the
\* details' amount at that moment.
C15_PayloadNumberIffTenDigits ==
    [][(lastCall'.op = "onProceedToPay" /\ lastCall'.branch = "request") =>
          LET payload == requests'[lastCall'.req].body
              tenDigits == /\ Len(phoneNumber) = 10
                           /\ \A k \in 1..Len(phoneNumber) :
                                 phoneNumber[k] \in {"0", "1", "2", "3", "4",
                                                     "5", "6", "7", "8", "9"}
          IN /\ requests'[lastCall'.req].kind = "POST"
             /\ Has(payload, "number") <=> tenDigits
             /\ Has(payload, "number") => payload.number = phoneNumber
             /\ DOMAIN payload \ {"number"} = {"name", "fileNumber", "amount"}
             /\ payload.name = consumerDetails.name
             /\ payload.fileNumber = accountNumber
             /\ payload.amount = consumerDetails.amount]_vars

\* A payment request has been issued while the phone field held eleven
\* digits: the payload has no number.
C15_Witness ==
    /\ lastCall.op = "onProceedToPay"
    /\ lastCall.branch = "request"
    /\ phoneNumber = ElevenDigits
    /\ ~Has(requests[lastCall.req].body, "number")

AmountChars == {"0", "1", "2", "3", "4", "5", "6", "7", "8", "9", "."}

DotsIn(text) == {k \in 1..Len(text) : text[k] = "."}

Least(positions) == CHOOSE k \in positions : \A other \in positions : k <= other

\* The text before the first point of text (all of it when there is none).
FirstSegment(text) ==
    IF DotsIn(text) = {} THEN text ELSE SubSeq(text, 1, Least(DotsIn(text)) - 1)

\* The text between the first point of text and the second (or the end).
FractionalSegment(text) ==
    LET first == Least(DotsIn(text))
        later == DotsIn(text) \ {first}
    IN SubSeq(text, first + 1, IF later = {} THEN Len(text) ELSE Least(later) - 1)

FirstTwo(text) == SubSeq(text, 1, IF Len(text) > 2 THEN 2 ELSE Len(text))

\* C16: For every text of the amount input, what restrictToNumber writes back
\* holds only digits and at most one decimal point, has at most 2 digits after
\* the point, is the first segment of the text stripped of other characters
\* followed (when the stripped text has a point) by the point and the first
\* two characters of the first fractional segment, and is written back
\* unchanged when filtered again; "12.3.45" gives "12.3", "12.345" gives
\* "12.34" and "abc12.5xyz" gives "12.5".
C16_SanitizedAmount ==
    [][LET raw      == amountInput
           out      == amountInput'
           stripped == SelectSeq(raw, LAMBDA c : c \in AmountChars)
       IN /\ \A k \in 1..Len(out) : out[k] \in AmountChars
          /\ Cardinality(DotsIn(out)) <= 1
          /\ \A d \in DotsIn(out) : Len(out) - d <= 2
          /\ out = IF DotsIn(stripped) = {} THEN stripped
                   ELSE FirstSegment(stripped) \o <<".">>
                            \o FirstTwo(FractionalSegment(stripped))
          /\ SanitizeAmount(out) = out
          /\ raw = <<"1", "2", ".", "3", ".", "4", "5">> => out = <<"1", "2", ".", "3">>
          /\ raw = <<"1", "2", ".", "3", "4", "5">> => out = <<"1", "2", ".", "3", "4">>
          /\ raw = <<"a", "b", "c", "1", "2", ".", "5", "x", "y", "z">> =>
                out = <<"1", "2", ".", "5">>]_vars

\* The filter has written back "12.34".
C16_Witness ==
    /\ lastCall.op = "edit"
    /\ amountInput = <<"1", "2", ".", "3", "4">>

PaymentsInFlight == {i \in InFlight : requests[i].kind = "POST"}

\* C17: In every state where a payment request is in flight the details are
\* not null and the request has its tab, opened by the same onProceedToPay
\* that issued it, neither navigated nor closed; no payment request is without
\* a tab.
C17_PaymentInFlightHasDetailsAndTab ==
    /\ \A i \in PaymentsInFlight :
          /\ consumerDetails # NULL
          /\ requests[i].tab = BlankTab
    /\ \A i \in DOMAIN requests : requests[i].kind = "POST" => requests[i].tab # NULL

\* The part of C17 about the tab alone.
PaymentInFlightHasBlankTab ==
    /\ \A i \in PaymentsInFlight : requests[i].tab = BlankTab
    /\ \A i \in DOMAIN requests : requests[i].kind = "POST" => requests[i].tab # NULL

\* The details are there while a payment is in flight, unless onGetDetails
\* has run its validation branch since.
DetailsWhilePayingUnlessValidation ==
    \A i \in PaymentsInFlight : consumerDetails # NULL \/ lastLookup.event = "validation"

\* C18: Whenever a payment request is issued, the fileNumber of its payload
\* is the account identifier that was sent in the lookup whose response
\* produced the current details, also when the account field was edited after
\* that lookup was issued.
C18_PaymentForLookedUpAccount ==
    (lastCall.op = "onProceedToPay" /\ lastCall.branch = "request") =>
        /\ lastLookup.event = "response"
        /\ encodeURIComponent(requests[lastCall.req].body.fileNumber) = lastLookup.query

\* The fileNumber of a payment is the account field as it is when
\* onProceedToPay runs.
PaymentForCurrentAccountField ==
    (lastCall.op = "onProceedToPay" /\ lastCall.branch = "request") =>
        /\ lastLookup.event = "response"
        /\ requests[lastCall.req].body.fileNumber = accountNumber

\* The step just taken belongs to the payment operation: the trigger on any
\* of its paths, a callback of the POST, or its timeout.
PaymentStep ==
    \/ lastCall'.op \in {"onProceedToPay", "paymentNext", "paymentError"}
    \/ lastCall'.op = "timeout" /\ requests'[lastCall'.req].kind = "POST"

\* C19: Every step of the payment operation (the trigger, the popup-blocked
\* abort, a response of any kind, an error, a timeout, completion) leaves the
\* details, the account number and the phone number as they were; after a
\* failed payment the same details are there for another attempt.
C19_PaymentLeavesDetailsAlone ==
    [][PaymentStep =>
          /\ UNCHANGED <<consumerDetails, accountNumber, phoneNumber, amountInput>>
          /\ \A j \in DOMAIN requests' :
                (j # lastCall'.req /\ j \in DOMAIN requests) => requests'[j] = requests[j]]_vars

\* A payment has failed and the details it was made for are still there:
\* onProceedToPay would issue a request again.
C19_Witness ==
    /\ lastCall.op \in {"paymentError", "timeout"}
    /\ requests[lastCall.req].kind = "POST"
    /\ consumerDetails # NULL
    /\ ~isLoading
    /\ ProceedBranch(VS, TRUE) = "request"

====
